---- MODULE Spec2Model ----
(***************************************************************************)
(* Order-to-accounting synchronisation: the on-disk token cache, the Zoho  *)
(* Books client (find-or-create operations), the order sync task and the   *)
(* payment-option reconciliation task.                                     *)
(*                                                                         *)
(* The tasks and the client functions run on workers (Celery workers, or   *)
(* any other caller of the client).  A worker goes through a call one      *)
(* access at a time: an access is a read or a write of the token file, or  *)
(* one HTTP exchange.  Between two accesses of a worker the other workers, *)
(* the accounting system and the clock go on.                              *)
(*                                                                         *)
(* Every client function is an operator from a world record to a world     *)
(* record and a value.  The world holds the clock, the token file, the     *)
(* identity provider's issue counter, the remote collections and the       *)
(* accesses the call has made so far, each with what the caller kept of    *)
(* its answer.  A step of a worker runs its call again over the accesses   *)
(* it has made, lets the next access take place on the state as it is now, *)
(* and runs on to the access after that, where the call waits again, or to *)
(* the end of the call.  The remote side answers an exchange "ok", with a  *)
(* JSON error body ("error_json"), or with a body that is no JSON at all / *)
(* a transport error ("malformed").                                        *)
(***************************************************************************)
EXTENDS Integers, Sequences, FiniteSets, TLC

VARIABLES
    now,              \* time.time(), in seconds
    tokenFile,        \* contents of TOKEN_FILE
    issued,           \* number of access tokens the identity endpoint has issued
    contacts,         \* remote contacts (customers and vendors)
    persons,          \* remote contact persons
    items,            \* remote catalog items
    customfields,     \* remote custom fields, each with its dropdown options
    estimates,        \* remote estimates
    retainerinvoices, \* remote retainer invoices
    categories,       \* remote item categories
    log,              \* per worker: the accesses of its call, in order
    ret,              \* per worker: how its last call ended
    call,             \* per worker: its call, the state it started in, where it waits
    spent             \* calls started and faulty answers given so far

vars == <<now, tokenFile, issued, contacts, persons, items, customfields,
          estimates, retainerinvoices, categories, log, ret, call, spent>>

remoteVars == <<contacts, persons, items, customfields, estimates, retainerinvoices,
                categories>>

-----------------------------------------------------------------------------
(* Bounds of the model *)

MaxNow == 1          \* the clock runs over 0..MaxNow
MaxTtlSlack == 1     \* expires_in ranges over REFRESH_MARGIN..REFRESH_MARGIN+MaxTtlSlack
MaxIssued == 3       \* tokens the identity endpoint issues in one behaviour
MaxCallers == 2      \* workers
MaxRuns == 2         \* calls (of a client function or of a task) in one behaviour
MaxSwitches == 2     \* steps that take over from a worker in the middle of its call
MaxTaskSwitches == 1 \* the same, among runs of a task or of a client function of many exchanges
MaxTokenRuns == 3    \* calls of get_access_token in one behaviour
MaxTokenSwitches == 4 \* the same, among callers of get_access_token
MaxChanges == 5       \* changes made on the remote side while the tasks run
MaxFaults == 1       \* exchanges answered other than "ok" in one behaviour
MaxContacts == 4     \* remote contacts in one behaviour
MaxItems == 3        \* remote catalog items in one behaviour
MaxEstimates == 2    \* remote estimates in one behaviour
MaxFields == 8       \* remote custom fields in one behaviour
MaxInvoices == 2     \* remote retainer invoices in one behaviour
MaxValues == 2       \* values assigned to one product, and values of one variant attribute

(* The five minutes by which a token is refreshed before it expires *)
REFRESH_MARGIN == 300

-----------------------------------------------------------------------------
(* Small helpers *)

Range(s) == {s[i] : i \in 1..Len(s)}

Indices(s, P(_)) == {i \in 1..Len(s) : P(s[i])}

Min(S) == CHOOSE x \in S : \A y \in S : x <= y

(* a statement `name = e` followed by the rest of the body: e is evaluated *)
(* once and the rest of the body goes on with its value                    *)
Bind(e, Rest(_)) == CHOOSE r \in {Rest(x) : x \in {e}} : TRUE

(* a JSON object is a function from its keys to their values *)
EmptyObject == <<>>

(* obj[key] = value *)
Put(map, key, value) ==
    [k \in DOMAIN map \cup {key} |-> IF k = key THEN value ELSE map[k]]

(* obj.get(key, default) *)
Get(obj, key, default) == IF key \in DOMAIN obj THEN obj[key] ELSE default

(* a Python value that is a string, a list of strings, or None *)
Str(x)  == [kind |-> "str",  str |-> x,  list |-> <<>>]
List(l) == [kind |-> "list", str |-> "", list |-> l]
None    == [kind |-> "none", str |-> "", list |-> <<>>]

(* `if value:` on such a value *)
Truthy(value) ==
    \/ value.kind = "str" /\ value.str # ""
    \/ value.kind = "list" /\ value.list # <<>>

(* {key: obj[key] for key in keys_to_keep if key in obj} *)
filter_object_KeepAll(obj, keys_to_keep) == obj
filter_object(obj, keys_to_keep) == [key \in DOMAIN obj \cap keys_to_keep |-> obj[key]]

-----------------------------------------------------------------------------
(* The token file *)

FileAbsent  == [kind |-> "absent",  access_token |-> 0, expiry |-> 0]
FileCorrupt == [kind |-> "corrupt", access_token |-> 0, expiry |-> 0]
FileRecord(token, expiry) == [kind |-> "ok", access_token |-> token, expiry |-> expiry]

(* open(TOKEN_FILE, "w") has truncated the file and nothing is flushed yet *)
FileEmpty == [kind |-> "empty", access_token |-> 0, expiry |-> 0]

(* what the file holds once json.dump's output is flushed at offset 0 of   *)
(* the file opened for writing: the record, or, when another writer has    *)
(* flushed a longer text in the meantime, the record followed by the tail  *)
(* of that text, which is no JSON                                          *)
WriteOutcomes(file, record) ==
    IF file.kind = "empty" THEN {record} ELSE {record, FileCorrupt}

-----------------------------------------------------------------------------
(* The remote collections and what the remote side answers *)

Contact(id, name, type) ==
    [contact_id |-> id, contact_name |-> name, contact_type |-> type]

Person(id, contact_id, email) ==
    [contact_person_id |-> id, contact_id |-> contact_id, email |-> email]

CustomField(id, module, label, data_type, values) ==
    [customfield_id |-> id, module |-> module, label |-> label,
     data_type |-> data_type, values |-> values]

Item(id, sku, name, vendor_id) ==
    [item_id |-> id, sku |-> sku, name |-> name, vendor_id |-> vendor_id]

Category(id, name) == [category_id |-> id, category_name |-> name]

RETAINER_PERCENTAGE == 50

LineItem(item) == [item_id |-> item.id, rate |-> item.price, quantity |-> item.quantity]

LineItems_DropFirst(its) == [i \in 1..(Len(its) - 1) |-> LineItem(its[i + 1])]
LineItems(its) == [i \in 1..Len(its) |-> LineItem(its[i])]

(* the payload of create_estimate, and the estimate the remote side makes  *)
(* of it.  order is no key of the payload the code sends: it records the   *)
(* order the call was made for                                             *)
EstimatePayload(customer_id, contact_id, its, order_id) ==
    [customer_id |-> customer_id, contact_persons |-> <<contact_id>>,
     line_items |-> LineItems(its), accept_retainer |-> TRUE,
     retainer_percentage |-> RETAINER_PERCENTAGE, order |-> order_id]

Estimate(id, payload) ==
    [estimate_id |-> id, customer_id |-> payload.customer_id,
     contact_persons |-> payload.contact_persons, line_items |-> payload.line_items,
     accept_retainer |-> payload.accept_retainer,
     retainer_percentage |-> payload.retainer_percentage,
     status |-> "sent", order |-> payload.order]

InvoiceStatuses == {"draft", "drawn", "paid"}

RetainerInvoice(id, estimate_id, status) ==
    [retainerinvoice_id |-> id, estimate_id |-> estimate_id, status |-> status,
     payment_options |-> "none"]

(* what GET contacts?contact_type=vendor answers *)
VendorListing(w) == SelectSeq(w.contacts, LAMBDA c : c.contact_type = "vendor")

(* what GET contacts?email=<email> answers: the contacts one of whose      *)
(* contact persons has that email                                          *)
EmailListing(w, email) ==
    SelectSeq(w.contacts,
              LAMBDA c : \E i \in 1..Len(w.persons) :
                             /\ w.persons[i].contact_id = c.contact_id
                             /\ w.persons[i].email = email)

(* what GET contacts/<id>/contactpersons answers *)
PersonListing(w, contact_id) ==
    SelectSeq(w.persons, LAMBDA p : p.contact_id = contact_id)

(* what GET settings/customfields?module=<module> answers *)
FieldListing(w, module) == SelectSeq(w.customfields, LAMBDA f : f.module = module)

(* the "field" object fields/editpage answers.  is_active and index stand  *)
(* for the keys the remote side adds on its own; a sparse answer leaves    *)
(* out "values" for a field that has no option                             *)
FetchedField(w, id) ==
    LET f == w.customfields[id]
        whole == [customfield_id |-> f.customfield_id, label |-> f.label,
                  data_type |-> f.data_type, entity |-> f.module,
                  values |-> f.values, is_active |-> TRUE, index |-> id]
    IN  IF w.choice.sparse /\ f.values = <<>>
        THEN [k \in DOMAIN whole \ {"values"} |-> whole[k]]
        ELSE whole

(* the SKUs get_or_create_item is asked for directly *)
Skus == {"A1", "A10"}

(* search_text is matched as a substring *)
Contains(text, part) == text = part \/ (text = "A10" /\ part = "A1")

(* what GET items?search_text=<sku> answers *)
ItemListing(w, sku) == SelectSeq(w.items, LAMBDA i : Contains(i.sku, sku))

(* what GET estimates?status=accepted answers *)
AcceptedListing(w) == SelectSeq(w.estimates, LAMBDA e : e.status = "accepted")

(* an invoice as an entry of the answered list.  A sparse answer leaves    *)
(* out "payment_options" for an invoice that has none                      *)
FetchedInvoice(w, inv) ==
    LET whole == [retainerinvoice_id |-> inv.retainerinvoice_id,
                  estimate_id |-> inv.estimate_id, status |-> inv.status,
                  payment_options |-> inv.payment_options]
    IN  IF w.choice.sparse /\ inv.payment_options = "none"
        THEN [k \in DOMAIN whole \ {"payment_options"} |-> whole[k]]
        ELSE whole

(* what GET retainerinvoices?estimate_id=<id> answers *)
InvoiceListing(w, estimate_id) ==
    LET mine == SelectSeq(w.retainerinvoices, LAMBDA r : r.estimate_id = estimate_id)
    IN  [i \in 1..Len(mine) |-> FetchedInvoice(w, mine[i])]

-----------------------------------------------------------------------------
(* Accesses: the token file and the HTTP exchanges *)

Request(m, r, key, id, sent) == [m |-> m, r |-> r, key |-> key, id |-> id, sent |-> sent]

NoRequest == Request("", "", "", 0, EmptyObject)

IsExchange(e) == e.m \in {"GET", "POST", "PUT"}

AnswerKinds == {"ok", "error_json", "malformed"}

ExpiresIn == REFRESH_MARGIN..(REFRESH_MARGIN + MaxTtlSlack)

(* what is open when an access takes place: the kind of answer of the      *)
(* remote side, the lifetime the identity endpoint grants, whether the     *)
(* answer leaves out what is empty, whether a flush lands on a longer text *)
Choice(answer, expires_in, sparse, torn) ==
    [answer |-> answer, expires_in |-> expires_in, sparse |-> sparse, torn |-> torn]

Plain == Choice("ok", REFRESH_MARGIN, FALSE, FALSE)

(* the state an access answered "ok" leaves, and the whole of its answer *)
Serve(w, req) ==
    CASE req.m = "READ" ->
           [w |-> w, full |-> [file |-> w.file, now |-> w.now]]
      [] req.m = "OPEN" ->
           [w |-> [w EXCEPT !.file = FileEmpty], full |-> EmptyObject]
      [] req.m = "DUMP" ->
           [w |-> [w EXCEPT !.file = IF w.choice.torn /\ FileCorrupt \in WriteOutcomes(@, req.sent)
                                     THEN FileCorrupt ELSE req.sent],
            full |-> EmptyObject]
      [] req.r = "oauth_token" ->
           [w |-> [w EXCEPT !.issued = @ + 1],
            full |-> [access_token |-> w.issued + 1, expires_in |-> w.choice.expires_in,
                      now |-> w.now]]
      [] req.m = "GET" /\ req.r = "contacts" /\ req.key = "vendor" ->
           [w |-> w, full |-> VendorListing(w)]
      [] req.m = "GET" /\ req.r = "contacts" /\ req.key # "vendor" ->
           [w |-> w, full |-> EmailListing(w, req.key)]
      [] req.m = "POST" /\ req.r = "contacts" ->
           LET c == Contact(Len(w.contacts) + 1, req.sent.contact_name,
                            req.sent.contact_type)
           IN  [w |-> [w EXCEPT !.contacts = Append(@, c)], full |-> c]
      [] req.m = "GET" /\ req.r = "categories" ->
           [w |-> w, full |-> w.categories]
      [] req.m = "POST" /\ req.r = "categories" ->
           LET c == Category(Len(w.categories) + 1, req.sent.category_name)
           IN  [w |-> [w EXCEPT !.categories = Append(@, c)], full |-> c]
      [] req.m = "GET" /\ req.r = "contactpersons" ->
           [w |-> w, full |-> PersonListing(w, req.id)]
      [] req.m = "POST" /\ req.r = "contactpersons" ->
           LET person == Person(Len(w.persons) + 1, req.sent.contact_id, req.sent.email)
           IN  [w |-> [w EXCEPT !.persons = Append(@, person)], full |-> person]
      [] req.m = "GET" /\ req.r = "customfields" ->
           [w |-> w, full |-> FieldListing(w, req.key)]
      [] req.m = "POST" /\ req.r = "customfields" ->
           LET f == CustomField(Len(w.customfields) + 1, req.sent.module,
                                req.sent.custom_field_name, req.sent.data_type, <<>>)
           IN  [w |-> [w EXCEPT !.customfields = Append(@, f)], full |-> f]
      [] req.m = "GET" /\ req.r = "fields_editpage" ->
           [w |-> w, full |-> FetchedField(w, req.id)]
      [] req.m = "PUT" /\ req.r = "fields" ->
           [w |-> [w EXCEPT !.customfields[req.id].values = req.sent["values"]],
            full |-> EmptyObject]
      [] req.m = "GET" /\ req.r = "items" ->
           [w |-> w, full |-> ItemListing(w, req.key)]
      [] req.m = "POST" /\ req.r = "items" ->
           LET item == Item(Len(w.items) + 1, req.sent.sku, req.sent.name,
                            req.sent.vendor_id)
           IN  [w |-> [w EXCEPT !.items = Append(@, item)], full |-> item]
      [] req.m = "GET" /\ req.r = "estimates" ->
           [w |-> w, full |-> AcceptedListing(w)]
      [] req.m = "POST" /\ req.r = "estimates" ->
           LET est == Estimate(Len(w.estimates) + 1, req.sent)
           IN  [w |-> [w EXCEPT !.estimates = Append(@, est)], full |-> est]
      [] req.m = "GET" /\ req.r = "retainerinvoices" ->
           [w |-> w, full |-> InvoiceListing(w, req.id)]
      [] req.m = "PUT" /\ req.r = "retainerinvoices" ->
           [w |-> [w EXCEPT !.retainerinvoices[req.id].payment_options =
                               req.sent["payment_options"]],
            full |-> EmptyObject]

Raise(w, e) == [w EXCEPT !.exc = e]

(* the call waits for an access: this is no exception of the program, and  *)
(* no except clause catches it                                             *)
WAITING == "<waiting>"

Failed(w) == w.exc # ""

Fail(w, e) == [w |-> Raise(w, e), v |-> 0]

(* the access the call has just gone through, and the call after it:       *)
(* .json() raises on a body that is no JSON                                *)
Answered(w) ==
    [w |-> IF w.trace[w.pos].resp = "malformed" THEN Raise(w, "JSONDecodeError") ELSE w,
     v |-> w.trace[w.pos]]

(* one access of the call.  Seen is what the caller keeps of the answer.   *)
(* An access the call has made before is gone through again with what was  *)
(* kept then; the first one after those takes place now; at the one after  *)
(* that the call waits.                                                    *)
Ask(w, req, Seen(_)) ==
    IF w.pos < Len(w.trace) THEN Answered([w EXCEPT !.pos = @ + 1])
    ELSE IF w.acted
    THEN [w |-> [w EXCEPT !.exc = WAITING, !.next = req], v |-> req]
    ELSE LET resp == IF IsExchange(req) THEN w.choice.answer ELSE "ok" IN
         Bind(IF resp = "ok" THEN Serve(w, req) ELSE [w |-> w, full |-> EmptyObject],
              LAMBDA s :
         Answered([s.w EXCEPT !.trace = Append(@, [m |-> req.m, r |-> req.r,
                                                    key |-> req.key, id |-> req.id,
                                                    sent |-> req.sent, resp |-> resp,
                                                    got |-> IF resp = "ok"
                                                            THEN Seen(s.full)
                                                            ELSE EmptyObject]),
                              !.pos = @ + 1,
                              !.acted = TRUE]))

(* the whole answer is kept *)
Whole(full) == full

(* `r = f(...)` followed by the rest of the body, which is skipped when f  *)
(* raised (or waits)                                                       *)
Then(e, Rest(_)) == CHOOSE r \in {IF Failed(x.w) THEN x ELSE Rest(x) : x \in {e}} : TRUE

-----------------------------------------------------------------------------
(* Token cache *)

(* the test of get_access_token: the cached record is still usable *)
TokenUsable_Early(t, expiry) == t + 1 < expiry
TokenUsable_AtExpiry(t, expiry) == t <= expiry
TokenUsable(t, expiry) == t < expiry

(* the expiry refresh_access_token persists *)
NewExpiry(t, expires_in) == t + expires_in - REFRESH_MARGIN

(* the try block of get_access_token on the file as it is read: the cached *)
(* token is returned, or the function falls through to the refresh         *)
(* (FileNotFoundError and JSONDecodeError are caught)                      *)
ReadOutcome_NoCatch(file, t) ==
    IF file.kind = "ok" THEN (IF TokenUsable(t, file.expiry) THEN "cached" ELSE "refresh")
    ELSE IF file.kind = "absent" THEN "refresh" ELSE "raise"

ReadOutcome(file, t) ==
    IF file.kind = "ok" /\ TokenUsable(t, file.expiry) THEN "cached" ELSE "refresh"

(* "access_token" in response *)
GrantsToken_Always(answer) == TRUE
GrantsToken(answer) == answer.resp = "ok"

refresh_access_token(w0) ==
    Then(Ask(w0, Request("POST", "oauth_token", "", 0, EmptyObject), Whole), LAMBDA g :
    IF ~GrantsToken(g.v) THEN Fail(g.w, "Exception") ELSE
    LET token_data == FileRecord(Get(g.v.got, "access_token", 0),
                                 NewExpiry(Get(g.v.got, "now", 0),
                                           Get(g.v.got, "expires_in", 0)))
    IN
    Then(Ask(g.w, Request("OPEN", "token_file", "", 0, EmptyObject), Whole), LAMBDA o :
    Then(Ask(o.w, Request("DUMP", "token_file", "", 0, token_data), Whole), LAMBDA d :
    [w |-> d.w, v |-> token_data.access_token])))

get_access_token(w0) ==
    Then(Ask(w0, Request("READ", "token_file", "", 0, EmptyObject), Whole), LAMBDA rd :
    Bind(ReadOutcome(rd.v.got.file, rd.v.got.now), LAMBDA o :
    IF o = "raise" THEN Fail(rd.w, "JSONDecodeError") ELSE
    IF o = "cached" THEN [w |-> rd.w, v |-> rd.v.got.file.access_token]
    ELSE refresh_access_token(rd.w)))

get_headers(w) == get_access_token(w)

-----------------------------------------------------------------------------
(* Accounting API client: vendors *)

VendorNames == {Str("Acme"), Str("Zen")}

(* the client-side scan of the listing *)
VendorMatches_Never(v, vendor_name) ==
    v.contact_name = vendor_name /\ v.contact_type = "customer"
VendorMatches(v, vendor_name) == v.contact_name = vendor_name

(* next((v for v in listing if ...), None), kept as the contact_id of the  *)
(* match, 0 for None                                                       *)
ExistingVendor(listing, vendor_name) ==
    LET found == Indices(listing, LAMBDA v : VendorMatches(v, vendor_name))
    IN  IF found = {} THEN 0 ELSE listing[Min(found)].contact_id

get_or_create_vendor(w0, vendor_name) ==
    Then(get_headers(w0), LAMBDA h :
    Then(Ask(h.w, Request("GET", "contacts", "vendor", 0, EmptyObject),
             LAMBDA listing : ExistingVendor(listing, vendor_name)), LAMBDA x :
    LET existing_vendor == IF x.v.resp = "ok" THEN x.v.got ELSE 0 IN
    IF existing_vendor # 0 THEN [w |-> x.w, v |-> existing_vendor] ELSE
    Then(Ask(x.w, Request("POST", "contacts", "vendor", 0,
                          [contact_name |-> vendor_name, contact_type |-> "vendor"]),
             LAMBDA contact : contact.contact_id), LAMBDA y :
    IF y.v.resp = "error_json" THEN Fail(y.w, "KeyError") ELSE
    [w |-> y.w, v |-> y.v.got])))

-----------------------------------------------------------------------------
(* Accounting API client: categories *)

CategoryNames == {"Sofas", "Benches"}

(* the client-side scan of the listing of categories, kept as the          *)
(* category_id of the match, 0 for None                                    *)
ExistingCategory(listing, category_name) ==
    LET found == Indices(listing, LAMBDA c : c.category_name = category_name)
    IN  IF found = {} THEN 0 ELSE listing[Min(found)].category_id

get_or_create_category(w0, category_name) ==
    Then(get_headers(w0), LAMBDA h :
    Then(Ask(h.w, Request("GET", "categories", category_name, 0, EmptyObject),
             LAMBDA listing : ExistingCategory(listing, category_name)), LAMBDA x :
    LET existing_category == IF x.v.resp = "ok" THEN x.v.got ELSE 0 IN
    IF existing_category # 0 THEN [w |-> x.w, v |-> existing_category] ELSE
    Then(Ask(x.w, Request("POST", "categories", category_name, 0,
                          [category_name |-> category_name]),
             LAMBDA category : category.category_id), LAMBDA y :
    IF y.v.resp = "error_json" THEN Fail(y.w, "KeyError") ELSE
    [w |-> y.w, v |-> y.v.got])))

-----------------------------------------------------------------------------
(* Accounting API client: custom fields *)

EIN_LABEL == "EIN / License Number / Reseller's Permit"

(* the scan of get_custom_field_id, kept as the customfield_id of the      *)
(* match, 0 when the loop ends without one                                 *)
FieldWithLabel(listing, field_label) ==
    LET found == Indices(listing, LAMBDA f : f.label = field_label)
    IN  IF found = {} THEN 0 ELSE listing[Min(found)].customfield_id

create_custom_field(w0, field_label, module) ==
    Then(get_headers(w0), LAMBDA h :
    Then(Ask(h.w, Request("POST", "customfields", field_label, 0,
                          [module |-> module, custom_field_name |-> field_label,
                           data_type |-> "string", is_active |-> TRUE]),
             LAMBDA f : f.customfield_id), LAMBDA x :
    [w |-> x.w, v |-> IF x.v.resp = "ok" THEN x.v.got ELSE 0]))

get_custom_field_id(w0, field_label, module) ==
    Then(get_headers(w0), LAMBDA h :
    Then(Ask(h.w, Request("GET", "customfields", module, 0, [label |-> field_label]),
             LAMBDA listing : FieldWithLabel(listing, field_label)), LAMBDA x :
    IF x.v.resp = "error_json" THEN Fail(x.w, "TypeError") ELSE
    IF x.v.got # 0 THEN [w |-> x.w, v |-> x.v.got]
    ELSE create_custom_field(x.w, field_label, module)))

(* the entry get_or_create_dropdown_custom_field appends to the options *)
NewOption_OrderIsLength(existing_options, new_option) ==
    [is_active |-> TRUE, name |-> new_option, order |-> Len(existing_options)]

NewOption(existing_options, new_option) ==
    [is_active |-> TRUE, name |-> new_option, order |-> Len(existing_options) + 1]

(* put_keys of get_or_create_dropdown_custom_field *)
FIELD_PUT_KEYS ==
    {"customfield_id", "is_mandatory", "is_basecurrency_amount", "data_type",
     "pii_type", "default_value", "entity", "values", "is_unique", "label",
     "selected_txn_entities", "help_text", "external_fields", "field_preferences",
     "show_on_pdf"}

(* what the function returns, by its kind: the "already exists" message,   *)
(* the answer of the PUT, or None                                          *)
get_or_create_dropdown_custom_field(w0, field_label, module, new_option) ==
    Then(get_headers(w0), LAMBDA h :
    Then(get_custom_field_id(h.w, field_label, module), LAMBDA g :
    IF g.v = 0 THEN [w |-> g.w, v |-> "None"] ELSE
    Then(Ask(g.w, Request("GET", "fields_editpage", field_label, g.v, EmptyObject),
             Whole), LAMBDA x :
    LET field == IF x.v.resp = "ok" THEN x.v.got ELSE EmptyObject
        existing_options == Get(field, "values", <<>>)
        existing_option_names == {existing_options[i].name : i \in 1..Len(existing_options)}
    IN
    IF new_option \in existing_option_names THEN [w |-> x.w, v |-> "already exists"] ELSE
    LET values == Append(existing_options, NewOption(existing_options, new_option))
        clean_field == filter_object(Put(field, "values", values), FIELD_PUT_KEYS)
    IN
    Then(Ask(x.w, Request("PUT", "fields", field_label, g.v, clean_field), Whole),
         LAMBDA y :
    [w |-> y.w, v |-> IF y.v.resp = "ok" THEN "updated" ELSE "error response"]))))

-----------------------------------------------------------------------------
(* Accounting API client: customers *)

NoPair == [contact_id |-> 0, contact_person_id |-> 0]

(* response["contacts"][0]["contact_id"], 0 when the list is empty *)
FirstContact(listing) == IF listing = <<>> THEN 0 ELSE listing[1].contact_id

(* second_response["contact_persons"][0]["contact_person_id"], 0 when      *)
(* there is no such entry                                                  *)
FirstPerson(listing) == IF listing = <<>> THEN 0 ELSE listing[1].contact_person_id

get_or_create_customer(w0, email, name, company_name) ==
    Then(get_headers(w0), LAMBDA h :
    Then(get_custom_field_id(h.w, EIN_LABEL, "contact"), LAMBDA f :
    Then(Ask(f.w, Request("GET", "contacts", email, 0, EmptyObject), FirstContact),
         LAMBDA x :
    LET found == IF x.v.resp = "ok" THEN x.v.got ELSE 0 IN
    IF found # 0 THEN
        Then(Ask(x.w, Request("GET", "contactpersons", email, found, EmptyObject),
                 FirstPerson), LAMBDA y :
        IF y.v.resp = "error_json" THEN [w |-> Raise(y.w, "KeyError"), v |-> NoPair] ELSE
        IF y.v.got = 0 THEN [w |-> Raise(y.w, "IndexError"), v |-> NoPair] ELSE
        [w |-> y.w, v |-> [contact_id |-> found, contact_person_id |-> y.v.got]])
    ELSE
        Then(Ask(x.w, Request("POST", "contacts", email, 0,
                              [contact_name |-> Str(IF name # email THEN name
                                                    ELSE company_name),
                               contact_type |-> "customer"]),
                 LAMBDA contact : contact.contact_id), LAMBDA y :
        IF y.v.resp = "error_json" THEN [w |-> Raise(y.w, "KeyError"), v |-> NoPair] ELSE
        Then(Ask(y.w, Request("POST", "contactpersons", email, y.v.got,
                              [contact_id |-> y.v.got, email |-> email]),
                 LAMBDA person : person.contact_person_id), LAMBDA z :
        IF z.v.resp = "error_json" THEN [w |-> Raise(z.w, "KeyError"), v |-> NoPair] ELSE
        [w |-> z.w, v |-> [contact_id |-> y.v.got, contact_person_id |-> z.v.got]])))))

-----------------------------------------------------------------------------
(* Accounting API client: catalog items *)

(* response["items"][0]["item_id"], 0 when the list is empty *)
FirstItem(listing) == IF listing = <<>> THEN 0 ELSE listing[1].item_id

(* the three custom fields of an item, in the order the code walks them *)
ItemFieldLabels == <<"Category", "Item Number", "Vendor">>

ItemFieldValue(label, sku, category, vendor) ==
    IF label = "Category" THEN Str(category)
    ELSE IF label = "Item Number" THEN Str(sku) ELSE vendor

RECURSIVE ItemCustomFields(_, _, _, _, _)
ItemCustomFields(w0, k, sku, category, vendor) ==
    IF k > Len(ItemFieldLabels) THEN [w |-> w0, v |-> 0] ELSE
    LET label == ItemFieldLabels[k] IN
    Then(get_custom_field_id(w0, label, "item"), LAMBDA f :
    IF label \in {"Category", "Vendor"} THEN
        Then(get_or_create_dropdown_custom_field(
                 f.w, label, "item", ItemFieldValue(label, sku, category, vendor)),
             LAMBDA d : ItemCustomFields(d.w, k + 1, sku, category, vendor))
    ELSE ItemCustomFields(f.w, k + 1, sku, category, vendor))

(* vendor is the brand of the line as the extractor returned it: a string, *)
(* a list of strings, or None                                              *)
get_or_create_item(w0, sku, name, category, vendor) ==
    Then(get_headers(w0), LAMBDA h :
    Then(Ask(h.w, Request("GET", "items", sku, 0, EmptyObject), FirstItem), LAMBDA x :
    LET found == IF x.v.resp = "ok" THEN x.v.got ELSE 0 IN
    IF found # 0 THEN [w |-> x.w, v |-> found] ELSE
    Then(IF Truthy(vendor) THEN get_or_create_vendor(x.w, vendor)
         ELSE [w |-> x.w, v |-> 0], LAMBDA vd :
    Then(ItemCustomFields(vd.w, 1, sku, category, vendor), LAMBDA c :
    Then(Ask(c.w, Request("POST", "items", sku, 0,
                          [sku |-> sku, name |-> name, vendor_id |-> vd.v]),
             LAMBDA item : item.item_id), LAMBDA y :
    IF y.v.resp = "error_json" THEN Fail(y.w, "KeyError") ELSE
    [w |-> y.w, v |-> y.v.got])))))

-----------------------------------------------------------------------------
(* Accounting API client: estimates *)

EstimateFieldLabels == <<"Sidemark", "Client PO", "EST Lead Time">>

RECURSIVE EstimateCustomFields(_, _)
EstimateCustomFields(w0, k) ==
    IF k > Len(EstimateFieldLabels) THEN [w |-> w0, v |-> 0] ELSE
    Then(get_custom_field_id(w0, EstimateFieldLabels[k], "estimate"), LAMBDA f :
    EstimateCustomFields(f.w, k + 1))

(* the answer is returned as it is; v is the estimate_id in it, 0 for an   *)
(* error body                                                              *)
create_estimate(w0, customer_id, its, order_id, contact_id) ==
    Then(get_headers(w0), LAMBDA h :
    Then(EstimateCustomFields(h.w, 1), LAMBDA c :
    Then(Ask(c.w, Request("POST", "estimates", "", order_id,
                          EstimatePayload(customer_id, contact_id, its, order_id)),
             LAMBDA est : est.estimate_id), LAMBDA x :
    [w |-> x.w, v |-> IF x.v.resp = "ok" THEN x.v.got ELSE 0])))

-----------------------------------------------------------------------------
(* Order-attribute extractor *)

(* attr_values if len(attr_values) < 1 else attr_values[0] *)
Collapse_KeepSingletons(attr_values) ==
    IF Len(attr_values) < 2 THEN List(attr_values) ELSE Str(attr_values[1])

Collapse(attr_values) ==
    IF Len(attr_values) < 1 THEN List(attr_values) ELSE Str(attr_values[1])

(* attr_value if len(attr_value) > 1 else attr_value[0]; the second field  *)
(* tells whether attr_value[0] raised IndexError                           *)
BrandOf(attr_value) ==
    IF Len(attr_value) > 1 THEN [v |-> List(attr_value), exc |-> ""]
    ELSE IF Len(attr_value) = 1 THEN [v |-> Str(attr_value[1]), exc |-> ""]
    ELSE [v |-> None, exc |-> "IndexError"]

(* values_map[slug]: the names of the assigned values of one attribute *)
AssignedNames(assigned, slug) ==
    LET mine == SelectSeq(assigned, LAMBDA av : av.slug = slug)
    IN  [i \in 1..Len(mine) |-> mine[i].name]

RECURSIVE ProductAttributes(_, _, _, _)
ProductAttributes(attribute_products, assigned, k, map) ==
    IF k > Len(attribute_products) THEN map ELSE
    ProductAttributes(attribute_products, assigned, k + 1,
        Put(map, attribute_products[k],
            Collapse(AssignedNames(assigned, attribute_products[k]))))

RECURSIVE VariantAttributes(_, _, _)
VariantAttributes(attrs, k, acc) ==
    IF k > Len(attrs) \/ acc.exc # "" THEN acc ELSE
    IF attrs[k].slug = "brand" THEN
        LET b == BrandOf(attrs[k].values) IN
        VariantAttributes(attrs, k + 1, [acc EXCEPT !.brand = b.v, !.exc = b.exc])
    ELSE
        VariantAttributes(attrs, k + 1,
            [acc EXCEPT !.map = Put(@, attrs[k].slug, Collapse(attrs[k].values))])

EmptyMap == [k \in {} |-> None]

get_line_item_attributes_and_brand(line_item) ==
    VariantAttributes(line_item.variant_attributes, 1,
        [map |-> ProductAttributes(line_item.attribute_products,
                                   line_item.assigned_values, 1, EmptyMap),
         brand |-> None, exc |-> ""])

-----------------------------------------------------------------------------
(* Accounting API client: accepted estimates and their retainer invoices *)

(* put_keys of update_retainer_invoice_payment_options *)
INVOICE_PUT_KEYS ==
    {"customer_id", "estimate_id", "retainerinvoice_number", "reference_number",
     "date", "contact_persons", "exchange_rate", "custom_fields", "notes", "terms",
     "line_items", "payment_options", "template_id", "billing_address_id",
     "documents"}

(* {"payment_gateways": [{"gateway_name": "zoho_payments"}]} *)
ZOHO_PAYMENTS == "zoho_payments"

(* the estimate_id of every estimate of the answered list *)
EstimateIds(listing) == [i \in 1..Len(listing) |-> listing[i].estimate_id]

(* retainer_invoices[0], the only entry of the list the code looks at *)
FirstInvoice(listing) == IF listing = <<>> THEN <<>> ELSE <<listing[1]>>

get_all_accepted_estimates(w0) ==
    Then(get_headers(w0), LAMBDA h :
    Then(Ask(h.w, Request("GET", "estimates", "accepted", 0, EmptyObject), EstimateIds),
         LAMBDA x :
    [w |-> x.w, v |-> IF x.v.resp = "ok" THEN x.v.got ELSE <<>>]))

(* the status test that guards the update *)
IsDrawn_Any(invoice) == invoice.status # "draft"
IsDrawn(invoice) == invoice.status = "drawn"

NO_INVOICES == "No retainer invoices found for this estimate."

(* if not retainer_invoices: return {"error": ...} *)
NoInvoices_Raising(w) == Fail(w, "IndexError")
NoInvoices(w) == [w |-> w, v |-> NO_INVOICES]

update_retainer_invoice_payment_options(w0, estimate_id) ==
    Then(get_headers(w0), LAMBDA h :
    Then(Ask(h.w, Request("GET", "retainerinvoices", "", estimate_id, EmptyObject),
             FirstInvoice), LAMBDA x :
    LET retainer_invoices == IF x.v.resp = "ok" THEN x.v.got ELSE <<>> IN
    IF retainer_invoices = <<>> THEN NoInvoices(x.w) ELSE
    IF ~IsDrawn(retainer_invoices[1]) THEN [w |-> x.w, v |-> "None"] ELSE
    LET id == retainer_invoices[1].retainerinvoice_id
        retainer_invoice == Put(retainer_invoices[1], "payment_options", ZOHO_PAYMENTS)
        clean_invoice == filter_object(retainer_invoice, INVOICE_PUT_KEYS)
    IN
    Then(Ask(x.w, Request("PUT", "retainerinvoices", "", id, clean_invoice), Whole),
         LAMBDA y :
    [w |-> y.w, v |-> IF y.v.resp = "ok" THEN "updated" ELSE "error response"])))

-----------------------------------------------------------------------------
(* Payment-option reconciliation task *)

(* the loop over the accepted estimates.  w.results collects what each     *)
(* call of update_retainer_invoice_payment_options returned                *)
RECURSIVE UpdateEach(_, _, _)
UpdateEach(w0, ests, k) ==
    IF k > Len(ests) THEN [w |-> w0, v |-> 0] ELSE
    Then(update_retainer_invoice_payment_options(w0, ests[k]), LAMBDA u :
    UpdateEach([u.w EXCEPT !.results = Append(@, u.v)], ests, k + 1))

check_estimate_accepted_and_add_zoho_payments(w0) ==
    Then(get_all_accepted_estimates(w0), LAMBDA a :
    Then(UpdateEach(a.w, a.v, 1), LAMBDA u :
    [w |-> u.w,
     v |-> IF a.v # <<>> THEN "Retainer invoice check completed." ELSE "None"]))

-----------------------------------------------------------------------------
(* The orders of the shop (the platform's data, read through the ORM) *)

Ann == [email |-> "ann@x", first_name |-> "Ann", full_name |-> "Ann Lee",
        local_part |-> "ann", company_name |-> "Lee Design"]

NoUser == [email |-> "", first_name |-> "", full_name |-> "",
           local_part |-> "", company_name |-> ""]

LineSofa ==
    [product_sku |-> "A1", product_name |-> "Sofa", price |-> 3, quantity |-> 1,
     category |-> "Sofas",
     attribute_products |-> <<"color", "material">>,
     assigned_values |-> <<[slug |-> "color", name |-> "red"],
                           [slug |-> "color", name |-> "blue"]>>,
     variant_attributes |-> <<[slug |-> "brand", values |-> <<"Acme", "Zen">>],
                              [slug |-> "size", values |-> <<"L">>]>>]

LineChair ==
    [product_sku |-> "B2", product_name |-> "Chair", price |-> 2, quantity |-> 4,
     category |-> "",
     attribute_products |-> <<"color">>,
     assigned_values |-> <<[slug |-> "color", name |-> "green"]>>,
     variant_attributes |-> <<[slug |-> "size", values |-> <<"M", "L">>],
                              [slug |-> "brand", values |-> <<"Zen", "Acme">>]>>]

LineStool ==
    [product_sku |-> "A10", product_name |-> "Stool", price |-> 1, quantity |-> 2,
     category |-> "Sofas",
     attribute_products |-> <<>>,
     assigned_values |-> <<>>,
     variant_attributes |-> <<[slug |-> "brand", values |-> <<"Acme">>]>>]

LineBench ==
    [product_sku |-> "B2", product_name |-> "Bench", price |-> 5, quantity |-> 2,
     category |-> "Benches",
     attribute_products |-> <<>>,
     assigned_values |-> <<>>,
     variant_attributes |-> <<[slug |-> "brand", values |-> <<>>]>>]

Orders ==
    <<[user |-> Ann,    lines |-> <<LineSofa, LineChair>>],
      [user |-> Ann,    lines |-> <<LineStool, LineBench>>],
      [user |-> NoUser, lines |-> <<LineChair>>]>>

(* order ids a task may be handed; 0 is the id of no order *)
OrderIds == 0..Len(Orders)

-----------------------------------------------------------------------------
(* Order sync task *)

(* line.variant.product.category.name or "Default Category" *)
CategoryOf(line) == IF line.category = "" THEN "Default Category" ELSE line.category

CustomerName(user) ==
    IF user.first_name # "" THEN user.full_name ELSE user.local_part

(* where in the task the world is: the step and the order line *)
At(w, stage, k) ==
    IF w.exc = WAITING THEN w ELSE [w EXCEPT !.stage = stage, !.line = k]

(* get_or_create_item raised for line k: the exception leaves the loop *)
Abandon_Swallow(w, k, its) ==
    [w |-> IF w.exc = WAITING THEN w ELSE [At(w, "item", k) EXCEPT !.exc = ""],
     v |-> its]
Abandon(w, k, its) == [w |-> At(w, "item", k), v |-> its]

(* the loop over order.lines.all(): its is the list items built so far *)
RECURSIVE ResolveLines(_, _, _, _)
ResolveLines(w0, lines, k, its) ==
    IF k > Len(lines) THEN [w |-> w0, v |-> its] ELSE
    LET line == lines[k] IN
    Bind(get_line_item_attributes_and_brand(line), LAMBDA ex :
    IF ex.exc # "" THEN [w |-> Raise(At(w0, "extract", k), ex.exc), v |-> its] ELSE
    Bind(get_or_create_item(w0, line.product_sku, line.product_name,
                            CategoryOf(line), ex.brand), LAMBDA it :
    IF Failed(it.w) THEN Abandon(it.w, k, its) ELSE
    ResolveLines(it.w, lines, k + 1,
        Append(its, [id |-> it.v, price |-> line.price, quantity |-> line.quantity]))))

(* the body of the try block *)
SyncOrder(w0, order_id) ==
    IF order_id \notin 1..Len(Orders)
    THEN [w |-> Raise(At(w0, "load", 0), "DoesNotExist"), v |-> 0] ELSE
    LET order == Orders[order_id]
        user == order.user
    IN
    IF user = NoUser
    THEN [w |-> Raise(At(w0, "load", 0), "AttributeError"), v |-> 0] ELSE
    Bind(get_or_create_customer(w0, user.email, CustomerName(user), user.company_name),
         LAMBDA c :
    IF Failed(c.w) THEN [w |-> At(c.w, "customer", 0), v |-> 0] ELSE
    Bind(ResolveLines(c.w, order.lines, 1, <<>>), LAMBDA l :
    IF Failed(l.w) THEN [w |-> l.w, v |-> 0] ELSE
    Bind(create_estimate(l.w, c.v.contact_id, l.v, order_id, c.v.contact_person_id),
         LAMBDA e :
    IF Failed(e.w) THEN [w |-> At(e.w, "estimate", 0), v |-> 0] ELSE
    [w |-> e.w, v |-> e.v])))

(* except Exception as e: the exceptions of the body the clause catches *)
Caught_Narrow(e) == e \in {"JSONDecodeError", "KeyError"}
Caught(e) == TRUE

(* what the task hands back: the success result, or, from the except       *)
(* clause, the error result; an exception the clause does not catch leaves *)
(* the task                                                                *)
TaskBoundary(r) ==
    IF r.w.exc = WAITING THEN r
    ELSE IF ~Failed(r.w) THEN [w |-> [r.w EXCEPT !.status = "success"], v |-> r.v]
    ELSE IF Caught(r.w.exc)
    THEN [w |-> [r.w EXCEPT !.status = "error", !.message = r.w.exc, !.exc = ""],
          v |-> 0]
    ELSE r

post_confirm_order(w0, order_id) == TaskBoundary(SyncOrder(w0, order_id))

-----------------------------------------------------------------------------
(* Workers, their calls, and what a behaviour may spend *)

Callers == 1..MaxCallers

(* the world a worker's call runs in: the state as it is now, the accesses *)
(* the call has made, and the choice for the access that takes place       *)
World(p, choice, acted) ==
    [now |-> now, file |-> tokenFile, issued |-> issued,
     contacts |-> contacts, persons |-> persons, items |-> items,
     customfields |-> customfields, categories |-> categories,
     estimates |-> estimates, retainerinvoices |-> retainerinvoices,
     trace |-> log[p], pos |-> 0, acted |-> acted, choice |-> choice,
     exc |-> "", next |-> NoRequest,
     stage |-> "", line |-> 0, results |-> <<>>, status |-> "", message |-> ""]

(* the function or task a call is a call of, with its arguments *)
Run(c, w) ==
    CASE c.op = "get_access_token" -> get_access_token(w)
      [] c.op = "get_or_create_vendor" -> get_or_create_vendor(w, c.name)
      [] c.op = "get_or_create_category" -> get_or_create_category(w, c.key)
      [] c.op = "get_or_create_item" ->
             get_or_create_item(w, c.key, "item", "Sofas", c.name)
      [] c.op = "ensure_option" ->
             get_or_create_dropdown_custom_field(w, c.key, "item", c.name)
      [] c.op = "update_invoice" -> update_retainer_invoice_payment_options(w, c.id)
      [] c.op = "post_confirm_order" -> post_confirm_order(w, c.id)
      [] c.op = "check_estimates" -> check_estimate_accepted_and_add_zoho_payments(w)

(* the operations whose value is an identifier; the others hand back a     *)
(* message or None                                                         *)
ReturnsId(op) ==
    op \in {"get_access_token", "get_or_create_vendor", "get_or_create_category",
            "get_or_create_item", "post_confirm_order"}

(* the remote collections a claim compares between two moments *)
Snapshot(w) == [contacts |-> w.contacts, categories |-> w.categories]

NoRet == [kind |-> "none", exc |-> "", v |-> 0, status |-> "", message |-> "",
          stage |-> "", line |-> 0, results |-> <<>>,
          ended |-> [contacts |-> <<>>, categories |-> <<>>]]

(* how a call ended *)
Outcome(c, r) ==
    [kind |-> IF Failed(r.w) THEN "raise" ELSE "return",
     exc |-> r.w.exc,
     v |-> IF ~Failed(r.w) /\ ReturnsId(c.op) THEN r.v ELSE 0,
     status |-> IF Failed(r.w) THEN ""
                ELSE IF ReturnsId(c.op) THEN r.w.status ELSE r.v,
     message |-> r.w.message, stage |-> r.w.stage, line |-> r.w.line,
     results |-> r.w.results, ended |-> Snapshot(r.w)]

(* a worker that has not been handed a call yet.  began is the remote side *)
(* as it was when the call was handed over, prev the call the worker made  *)
(* before this one                                                         *)
Idle == [op |-> "none", key |-> "", id |-> 0, name |-> None, pc |-> "idle",
         next |-> NoRequest,
         began |-> [contacts |-> <<>>, categories |-> <<>>],
         prev |-> [op |-> "none", key |-> "", id |-> 0, name |-> None,
                   began |-> [contacts |-> <<>>, categories |-> <<>>],
                   ret |-> NoRet, log |-> <<>>]]

(* what a behaviour may still spend: calls to start, answers other than    *)
(* "ok", steps that take over from a worker in the middle of its call,     *)
(* ticks of the clock, changes made on the remote side and to the file by  *)
(* others; last is the worker that took the last step                      *)
Budget(runs, faults, switches, ticks, changes) ==
    [runs |-> runs, faults |-> faults, switches |-> switches, ticks |-> ticks,
     changes |-> changes, last |-> 0]

(* the step of worker p takes over from a worker in the middle of its call *)
TakesOver(p) ==
    /\ spent.last \notin {0, p}
    /\ call[spent.last].pc = "running"

MayStep(p) == TakesOver(p) => spent.switches > 0

Stepped(p, s) ==
    [s EXCEPT !.switches = IF TakesOver(p) THEN @ - 1 ELSE @, !.last = p]

(* the collections stay within the bounds *)
Commit(w) ==
    /\ w.issued <= MaxIssued
    /\ Len(w.contacts) <= MaxContacts
    /\ Len(w.items) <= MaxItems
    /\ Len(w.estimates) <= MaxEstimates
    /\ Len(w.customfields) <= MaxFields
    /\ Len(w.retainerinvoices) <= MaxInvoices
    /\ tokenFile' = w.file
    /\ issued' = w.issued
    /\ contacts' = w.contacts
    /\ persons' = w.persons
    /\ items' = w.items
    /\ customfields' = w.customfields
    /\ categories' = w.categories
    /\ estimates' = w.estimates
    /\ retainerinvoices' = w.retainerinvoices
    /\ now' = now

(* the call of worker p has run as far as r: it waits for its next access, *)
(* or it is over                                                           *)
Settle(p, c, r) ==
    /\ log' = [log EXCEPT ![p] = r.w.trace]
    /\ IF r.w.exc = WAITING
       THEN /\ call' = [call EXCEPT ![p] = [c EXCEPT !.pc = "running", !.next = r.w.next]]
            /\ ret' = [ret EXCEPT ![p] = NoRet]
       ELSE /\ call' = [call EXCEPT ![p] = [c EXCEPT !.pc = "done", !.next = NoRequest]]
            /\ ret' = [ret EXCEPT ![p] = Outcome(c, r)]

(* worker p is handed a call: the call runs up to its first access *)
Start(p, op, key, id, name) ==
    /\ call[p].pc # "running"
    /\ p > 1 => call[p - 1].pc # "idle"
    /\ spent.runs > 0
    /\ MayStep(p)
    /\ LET c == [op |-> op, key |-> key, id |-> id, name |-> name, pc |-> "running",
                 next |-> NoRequest,
                 began |-> [contacts |-> contacts, categories |-> categories],
                 prev |-> [op |-> call[p].op, key |-> call[p].key, id |-> call[p].id,
                           name |-> call[p].name, began |-> call[p].began,
                           ret |-> ret[p], log |-> log[p]]]
       IN  \E r \in {Run(c, [World(p, Plain, TRUE) EXCEPT !.trace = <<>>])} :
              /\ Settle(p, c, r)
              /\ spent' = [Stepped(p, spent) EXCEPT !.runs = @ - 1]
    /\ UNCHANGED <<now, tokenFile, issued, remoteVars>>

(* what is open when the access req takes place *)
Choices(req) ==
    IF req.m \in {"READ", "OPEN"} THEN {Plain}
    ELSE IF req.m = "DUMP"
    THEN {Choice("ok", REFRESH_MARGIN, FALSE, torn) :
             torn \in {t \in BOOLEAN : t => tokenFile.kind # "empty"}}
    ELSE IF req.r = "oauth_token"
    THEN {Choice("ok", e, FALSE, FALSE) : e \in ExpiresIn}
         \cup {Choice(a, REFRESH_MARGIN, FALSE, FALSE) : a \in AnswerKinds \ {"ok"}}
    ELSE IF req.m = "GET" /\ req.r \in {"fields_editpage", "retainerinvoices"}
    THEN {Choice("ok", REFRESH_MARGIN, sparse, FALSE) : sparse \in BOOLEAN}
         \cup {Choice(a, REFRESH_MARGIN, FALSE, FALSE) : a \in AnswerKinds \ {"ok"}}
    ELSE {Choice(a, REFRESH_MARGIN, FALSE, FALSE) : a \in AnswerKinds}

(* the access worker p waits for takes place, and the call runs on to the  *)
(* next one or to its end                                                  *)
Step(p) ==
    /\ call[p].pc = "running"
    /\ MayStep(p)
    /\ \E c \in Choices(call[p].next) :
          /\ c.answer # "ok" => spent.faults > 0
          /\ \E r \in {Run(call[p], World(p, c, FALSE))} :
                /\ Commit(r.w)
                /\ Settle(p, call[p], r)
                /\ spent' = [Stepped(p, spent) EXCEPT
                                !.faults = IF c.answer # "ok" THEN @ - 1 ELSE @]

(* time passes *)
Tick ==
    /\ now < MaxNow
    /\ spent.ticks > 0
    /\ now' = now + 1
    /\ spent' = [spent EXCEPT !.ticks = @ - 1]
    /\ UNCHANGED <<tokenFile, issued, remoteVars, log, ret, call>>

(* the token file is cut short (a writer that died, a cleaner of /tmp) *)
TokenFileDamaged ==
    /\ tokenFile.kind = "ok"
    /\ spent.changes > 0
    /\ tokenFile' = FileCorrupt
    /\ spent' = [spent EXCEPT !.changes = @ - 1]
    /\ UNCHANGED <<now, issued, remoteVars, log, ret, call>>

(* nothing cached, nothing on the remote side, nothing run *)
Quiet ==
    /\ now = 0
    /\ tokenFile = FileAbsent
    /\ issued = 0
    /\ contacts = <<>>
    /\ persons = <<>>
    /\ items = <<>>
    /\ customfields = <<>>
    /\ categories = <<>>
    /\ estimates = <<>>
    /\ retainerinvoices = <<>>
    /\ log = [p \in Callers |-> <<>>]
    /\ ret = [p \in Callers |-> NoRet]
    /\ call = [p \in Callers |-> Idle]

-----------------------------------------------------------------------------
(* Callers of the token cache *)

CallGetAccessToken(p) == Start(p, "get_access_token", "", 0, None)

TokenBudgets == {Budget(MaxTokenRuns, 0, MaxTokenSwitches, 0, 0),
                 Budget(MaxRuns, MaxFaults, MaxSwitches, MaxNow, 1)}

InitToken == Quiet /\ spent \in TokenBudgets

NextToken ==
    \/ Tick
    \/ TokenFileDamaged
    \/ \E p \in Callers : CallGetAccessToken(p)
    \/ \E p \in Callers : Step(p)

SpecToken == InitToken /\ [][NextToken]_vars

-----------------------------------------------------------------------------
(* The client used directly: vendors and categories *)

CallGetOrCreateVendor(p) ==
    \E name \in VendorNames : Start(p, "get_or_create_vendor", "", 0, name)

CallGetOrCreateCategory(p) ==
    \E name \in CategoryNames : Start(p, "get_or_create_category", name, 0, None)

(* somebody renames a vendor in the accounting system *)
RemoteRenamesVendor ==
    \E i \in 1..Len(contacts), name \in VendorNames :
        /\ contacts[i].contact_type = "vendor"
        /\ contacts[i].contact_name # name
        /\ spent.changes > 0
        /\ contacts' = [contacts EXCEPT ![i].contact_name = name]
        /\ spent' = [spent EXCEPT !.changes = @ - 1]
        /\ UNCHANGED <<now, tokenFile, issued, persons, items, customfields,
                       categories, estimates, retainerinvoices, log, ret, call>>

ClientBudgets == {Budget(MaxRuns, MaxFaults, MaxSwitches, MaxNow, 1)}

InitClient == Quiet /\ spent \in ClientBudgets

NextClient ==
    \/ Tick
    \/ RemoteRenamesVendor
    \/ \E p \in Callers : CallGetOrCreateVendor(p)
    \/ \E p \in Callers : CallGetOrCreateCategory(p)
    \/ \E p \in Callers : Step(p)

SpecClient == InitClient /\ [][NextClient]_vars

-----------------------------------------------------------------------------
(* The order sync task, triggered when an order is confirmed *)

PostConfirmOrder(p) ==
    \E order_id \in OrderIds : Start(p, "post_confirm_order", "", order_id, None)

(* one run that meets a faulty answer; one run during which the clock      *)
(* moves; runs of several workers that take over from one another          *)
OrderBudgets == {Budget(1, MaxFaults, 0, 0, 0),
                 Budget(1, 0, 0, MaxNow, 0),
                 Budget(MaxRuns, 0, MaxTaskSwitches, 0, 0)}

InitOrder == Quiet /\ spent \in OrderBudgets

NextOrder ==
    \/ Tick
    \/ \E p \in Callers : PostConfirmOrder(p)
    \/ \E p \in Callers : Step(p)

SpecOrder == InitOrder /\ [][NextOrder]_vars

-----------------------------------------------------------------------------
(* The reconciliation task, run on a schedule, and what happens to         *)
(* estimates and retainer invoices in the accounting system meanwhile      *)

(* an order sync run elsewhere has left an estimate *)
RemoteEstimateCreated ==
    /\ Len(estimates) < MaxEstimates
    /\ spent.changes > 0
    /\ estimates' = Append(estimates,
                           Estimate(Len(estimates) + 1, EstimatePayload(1, 1, <<>>, 1)))
    /\ spent' = [spent EXCEPT !.changes = @ - 1]
    /\ UNCHANGED <<now, tokenFile, issued, contacts, persons, items, customfields,
                   categories, retainerinvoices, log, ret, call>>

(* the customer accepts an estimate *)
RemoteEstimateAccepted ==
    \E i \in 1..Len(estimates) :
        /\ estimates[i].status = "sent"
        /\ spent.changes > 0
        /\ estimates' = [estimates EXCEPT ![i].status = "accepted"]
        /\ spent' = [spent EXCEPT !.changes = @ - 1]
        /\ UNCHANGED <<now, tokenFile, issued, contacts, persons, items, customfields,
                       categories, retainerinvoices, log, ret, call>>

(* a retainer invoice is raised for an accepted estimate *)
RemoteInvoiceRaised ==
    \E i \in 1..Len(estimates), st \in InvoiceStatuses :
        /\ estimates[i].status = "accepted"
        /\ Len(retainerinvoices) < MaxInvoices
        /\ spent.changes > 0
        /\ retainerinvoices' = Append(retainerinvoices,
               RetainerInvoice(Len(retainerinvoices) + 1, estimates[i].estimate_id, st))
        /\ spent' = [spent EXCEPT !.changes = @ - 1]
        /\ UNCHANGED <<now, tokenFile, issued, contacts, persons, items, customfields,
                       categories, estimates, log, ret, call>>

CheckEstimates(p) == Start(p, "check_estimates", "", 0, None)

(* one run that meets a faulty answer or a tick of the clock; runs of       *)
(* several workers that take over from one another; in both the remote     *)
(* side changes while the runs go on                                       *)
ReconBudgets == {Budget(1, MaxFaults, 0, MaxNow, MaxChanges),
                 Budget(MaxRuns, 0, MaxTaskSwitches, 0, MaxChanges)}

InitRecon == Quiet /\ spent \in ReconBudgets

NextRecon ==
    \/ Tick
    \/ RemoteEstimateCreated
    \/ RemoteEstimateAccepted
    \/ RemoteInvoiceRaised
    \/ \E p \in Callers : CheckEstimates(p)
    \/ \E p \in Callers : Step(p)

SpecRecon == InitRecon /\ [][NextRecon]_vars

-----------------------------------------------------------------------------
(* The client's get_or_create_item used directly *)

ItemVendors == {None, Str("Acme"), List(<<"Acme", "Zen">>)}

CallGetOrCreateItem(p) ==
    \E sku \in Skus, vendor \in ItemVendors :
        Start(p, "get_or_create_item", sku, 0, vendor)

ItemBudgets == {Budget(1, MaxFaults, 0, 0, 0),
                Budget(1, 0, 0, MaxNow, 0),
                Budget(MaxRuns, 0, MaxTaskSwitches, 0, 0)}

InitItem == Quiet /\ spent \in ItemBudgets

NextItem ==
    \/ Tick
    \/ \E p \in Callers : CallGetOrCreateItem(p)
    \/ \E p \in Callers : Step(p)

SpecItem == InitItem /\ [][NextItem]_vars

-----------------------------------------------------------------------------
(* The two updating operations of the client used directly: the dropdown   *)
(* option of an item field, and the payment options of the retainer        *)
(* invoice of an estimate                                                  *)

DropdownLabels == {"Category", "Vendor"}
DropdownOptions == {Str("Sofas"), Str("Acme"), List(<<"Acme", "Zen">>), None}

CallEnsureOption(p) ==
    \E label \in DropdownLabels, option \in DropdownOptions :
        Start(p, "ensure_option", label, 0, option)

CallUpdateInvoice(p) ==
    \E estimate_id \in 1..Len(estimates) :
        Start(p, "update_invoice", "", estimate_id, None)

PutBudgets == {Budget(1, MaxFaults, 0, MaxNow, 1),
               Budget(MaxRuns, 0, MaxTaskSwitches, 0, 1)}

(* one estimate has been created and accepted; nothing else has happened *)
InitPut ==
    /\ now = 0
    /\ tokenFile = FileAbsent
    /\ issued = 0
    /\ contacts = <<>>
    /\ persons = <<>>
    /\ items = <<>>
    /\ customfields = <<>>
    /\ categories = <<>>
    /\ estimates = <<[Estimate(1, EstimatePayload(1, 1, <<>>, 1))
                         EXCEPT !.status = "accepted"]>>
    /\ retainerinvoices = <<>>
    /\ log = [p \in Callers |-> <<>>]
    /\ ret = [p \in Callers |-> NoRet]
    /\ call = [p \in Callers |-> Idle]
    /\ spent \in PutBudgets

NextPut ==
    \/ Tick
    \/ RemoteInvoiceRaised
    \/ \E p \in Callers : CallEnsureOption(p)
    \/ \E p \in Callers : CallUpdateInvoice(p)
    \/ \E p \in Callers : Step(p)

SpecPut == InitPut /\ [][NextPut]_vars

-----------------------------------------------------------------------------
(* The extractor applied to order lines drawn from bounded sets.  An       *)
(* attribute is a product attribute or a variant attribute of a product    *)
(* type, never both, so the two kinds draw their slugs from disjoint sets. *)
(* In this specification call holds the order line and ret what the        *)
(* extraction gave.                                                        *)

RECURSIVE SeqsUpTo(_, _)
SeqsUpTo(S, n) ==
    IF n = 0 THEN {<<>>}
    ELSE LET shorter == SeqsUpTo(S, n - 1) IN
         shorter \cup {Append(q, x) : q \in {p \in shorter : Len(p) = n - 1}, x \in S}

Names == {"a", "b"}
ProductSlugs == {"color", "material"}
VariantSlugs == {"brand", "size"}

AttributeProductLists ==
    {<<>>, <<"color">>, <<"color", "material">>, <<"material", "color">>}

AssignedValueLists == SeqsUpTo([slug : ProductSlugs, name : Names], MaxValues)

VariantAttribute == [slug : VariantSlugs, values : SeqsUpTo(Names, MaxValues)]

VariantAttributeLists ==
    {<<>>} \cup {<<a>> : a \in VariantAttribute}
           \cup {p \in {<<a, b>> : a \in VariantAttribute, b \in VariantAttribute} :
                      p[1].slug # p[2].slug}

OrderLines ==
    {[attribute_products |-> ap, assigned_values |-> av, variant_attributes |-> va] :
        ap \in AttributeProductLists, av \in AssignedValueLists,
        va \in VariantAttributeLists}

(* an order line is at hand, nothing extracted yet *)
InitExtract ==
    /\ now = 0
    /\ tokenFile = FileAbsent
    /\ issued = 0
    /\ contacts = <<>>
    /\ persons = <<>>
    /\ items = <<>>
    /\ customfields = <<>>
    /\ categories = <<>>
    /\ estimates = <<>>
    /\ retainerinvoices = <<>>
    /\ log = <<>>
    /\ ret = [kind |-> "none", exc |-> "", map |-> EmptyMap, brand |-> None]
    /\ spent = Budget(1, 0, 0, 0, 0)
    /\ \E line \in OrderLines : call = [op |-> "line", line |-> line]

ExtractAttributes ==
    /\ call.op = "line"
    /\ \E r \in {get_line_item_attributes_and_brand(call.line)} :
       ret' = [kind |-> IF r.exc = "" THEN "return" ELSE "raise", exc |-> r.exc,
               map |-> r.map, brand |-> r.brand]
    /\ call' = [call EXCEPT !.op = "extract"]
    /\ UNCHANGED <<now, tokenFile, issued, remoteVars, log, spent>>

NextExtract == ExtractAttributes

SpecExtract == InitExtract /\ [][NextExtract]_vars

-----------------------------------------------------------------------------
(* Observations on the accesses of a call *)

IsRefresh(e) == e.m = "POST" /\ e.r = "oauth_token"

IsFileWrite(e) == e.m \in {"OPEN", "DUMP"}

IsRemoteWrite(e) == e.m \in {"POST", "PUT"}

(* the refresh grants and the writes of the token file among the accesses l *)
Grants(l) == {i \in 1..Len(l) : IsRefresh(l[i])}

FileWrites(l) == {i \in 1..Len(l) : IsFileWrite(l[i])}

(* every exchange among the accesses l was answered normally *)
AllOk(l) == \A i \in 1..Len(l) : l[i].resp = "ok"

(* the creations in the collection r, and the updates, among the accesses l *)
Posts(l, r) == {i \in 1..Len(l) : l[i].m = "POST" /\ l[i].r = r}

Puts(l) == {i \in 1..Len(l) : l[i].m = "PUT"}

(* worker p has been handed op and the call is over *)
RanTo(p, op) == call[p].op = op /\ call[p].pc = "done"

(* the record a read of the token file found is one that has not expired *)
Fresh(e) == e.got.file.kind = "ok" /\ e.got.file.expiry > e.got.now

(* the call of worker p is a call of get_access_token that has read the    *)
(* token file                                                              *)
HasRead(p) ==
    /\ call[p].op = "get_access_token"
    /\ log[p] # <<>>
    /\ log[p][1].m = "READ"

-----------------------------------------------------------------------------
(* C1: when the record get_access_token reads from the token file has an   *)
(* expiry strictly greater than the time of the call, the call issues no   *)
(* refresh grant, does not write the token file, and returns the           *)
(* access_token of the record.                                             *)
C1_FreshTokenIsServedFromCache ==
    \A p \in Callers :
        HasRead(p) /\ Fresh(log[p][1])
            => /\ call[p].pc = "done"
               /\ Len(log[p]) = 1
               /\ Grants(log[p]) = {}
               /\ FileWrites(log[p]) = {}
               /\ ret[p].kind = "return"
               /\ ret[p].v = log[p][1].got.file.access_token

(* a call found a record that expires one second later and returned its   *)
(* token; the record is still in the file                                 *)
C1_Witness ==
    \E p \in Callers :
        /\ HasRead(p)
        /\ Fresh(log[p][1])
        /\ log[p][1].got.file.expiry = log[p][1].got.now + 1
        /\ ret[p].kind = "return"
        /\ ret[p].v = log[p][1].got.file.access_token
        /\ tokenFile = log[p][1].got.file
        /\ issued = 1

-----------------------------------------------------------------------------
(* C2: when get_access_token finds no record, an unreadable file, or a     *)
(* record whose expiry is not after the time of the call (expiry equal to  *)
(* now included), the call issues exactly one refresh grant; when the      *)
(* grant yields a token, the record {access_token, expiry = now +          *)
(* expires_in - 300} is written to the token file before the call          *)
(* returns, and the call returns the token of that record.  At the return  *)
(* the file holds the record, unless another writer has flushed its own    *)
(* text since this call opened the file, and then the file is no JSON.     *)
C2_StaleTokenIsRefreshedOnceAndPersisted ==
    [][\A p \in Callers :
          (/\ call[p].pc = "running"
           /\ call'[p].pc = "done"
           /\ call'[p].op = "get_access_token"
           /\ ~Fresh(log'[p][1]))
              => LET l == log'[p] IN
                 /\ Cardinality(Grants(l)) = 1
                 /\ Len(l) >= 2
                 /\ IsRefresh(l[2])
                 /\ l[2].resp # "ok" => ret'[p].kind = "raise" /\ FileWrites(l) = {}
                 /\ l[2].resp = "ok"
                        => /\ Len(l) = 4
                           /\ l[3].m = "OPEN"
                           /\ l[4].m = "DUMP"
                           /\ l[4].sent = FileRecord(l[2].got.access_token,
                                                     l[2].got.now + l[2].got.expires_in
                                                         - REFRESH_MARGIN)
                           /\ ret'[p].kind = "return"
                           /\ ret'[p].v = l[4].sent.access_token
                           /\ \/ tokenFile' = l[4].sent
                              \/ tokenFile.kind # "empty" /\ tokenFile' = FileCorrupt
      ]_vars

(* a call found a record that expired at the very second of the call,      *)
(* was granted a new token and left it in the file                         *)
C2_Witness ==
    \E p \in Callers :
        /\ HasRead(p)
        /\ call[p].pc = "done"
        /\ log[p][1].got.file.kind = "ok"
        /\ log[p][1].got.file.expiry = log[p][1].got.now
        /\ ret[p].kind = "return"
        /\ ret[p].v = 2
        /\ tokenFile.kind = "ok"
        /\ tokenFile.access_token = 2
        /\ tokenFile = log[p][4].sent

-----------------------------------------------------------------------------
(* Observations on a run of the order sync task *)

RanOrder(p) == RanTo(p, "post_confirm_order")

(* the lookups of the customer by email that found a contact *)
EmailMatches(l) ==
    {i \in 1..Len(l) : /\ l[i].m = "GET"
                       /\ l[i].r = "contacts"
                       /\ l[i].key # "vendor"
                       /\ l[i].resp = "ok"
                       /\ l[i].got # 0}

EmailLookups(l) ==
    {i \in 1..Len(l) : l[i].m = "GET" /\ l[i].r = "contacts" /\ l[i].key # "vendor"}

CustomerPosts(l) ==
    {i \in 1..Len(l) : /\ l[i].m = "POST"
                       /\ \/ l[i].r = "contactpersons"
                          \/ l[i].r = "contacts" /\ l[i].key # "vendor"}

(* C3: post_confirm_order never raises: for every order id and whatever    *)
(* step fails (loading the order, resolving the customer, extracting the   *)
(* attributes, resolving an item, creating the estimate), a run ends by    *)
(* returning the success result or the error result with its message.      *)
C3_TaskNeverRaises ==
    \A p \in Callers :
        RanOrder(p)
            => /\ ret[p].kind = "return"
               /\ ret[p].status \in {"success", "error"}
               /\ ret[p].status = "success" => ret[p].message = "" /\ ret[p].stage = ""
               /\ ret[p].status = "error" => ret[p].message # "" /\ ret[p].v = 0

(* the extraction of the second line raised after the item of the first    *)
(* line had been created, and the run returned the error result            *)
C3_Witness ==
    \E p \in Callers :
        /\ RanOrder(p)
        /\ ret[p].kind = "return"
        /\ ret[p].status = "error"
        /\ ret[p].stage = "extract"
        /\ ret[p].line = 2
        /\ ret[p].message = "IndexError"
        /\ Posts(log[p], "items") # {}
        /\ estimates = <<>>

-----------------------------------------------------------------------------
(* C4: a successful run, every exchange of which is answered normally, for *)
(* an order of N lines whose customer email matches a remote contact       *)
(* issues exactly one lookup of the customer by email, no creation of a    *)
(* contact or contact person for the customer, at most N item creations,   *)
(* and exactly one estimate creation, whose line_items has N entries and   *)
(* whose retainer_percentage is 50.                                        *)
C4_EndToEndWithKnownCustomer ==
    \A p \in Callers :
        (/\ RanOrder(p)
         /\ ret[p].kind = "return"
         /\ ret[p].status = "success"
         /\ AllOk(log[p])
         /\ EmailMatches(log[p]) # {})
            => LET l == log[p]
                   N == Len(Orders[call[p].id].lines)
               IN  /\ Cardinality(EmailLookups(l)) = 1
                   /\ CustomerPosts(l) = {}
                   /\ Cardinality(Posts(l, "items")) <= N
                   /\ Cardinality(Posts(l, "estimates")) = 1
                   /\ \A i \in Posts(l, "estimates") :
                          /\ Len(l[i].sent.line_items) = N
                          /\ l[i].sent.retainer_percentage = 50

(* the order of two lines was synchronised by a run that found the         *)
(* customer and both items, and created the estimate                       *)
C4_Witness ==
    \E p \in Callers :
        /\ RanOrder(p)
        /\ call[p].id = 1
        /\ ret[p].status = "success"
        /\ AllOk(log[p])
        /\ EmailMatches(log[p]) # {}
        /\ Posts(log[p], "items") = {}
        /\ Len(estimates) = 2
        /\ ret[p].v = 2
        /\ Len(estimates[2].line_items) = 2
        /\ estimates[2].retainer_percentage = 50

-----------------------------------------------------------------------------
(* Observations on two calls of get_or_create_vendor in sequence *)

(* between the two snapshots of the vendor collection nothing changed but  *)
(* what the creations among the accesses l added                           *)
OnlyOwnCreations(before, after, l) ==
    /\ Len(after) = Len(before) + Cardinality({i \in Posts(l, "contacts") : l[i].resp = "ok"})
    /\ \A i \in 1..Len(before) : after[i] = before[i]

(* worker p has made two calls of get_or_create_vendor with the same name, *)
(* one after the other, each answered normally, with no other change to    *)
(* the vendor collection from the start of the first to the end of the     *)
(* second                                                                  *)
CalledTwice(p) ==
    /\ RanTo(p, "get_or_create_vendor")
    /\ call[p].prev.op = "get_or_create_vendor"
    /\ call[p].prev.name = call[p].name
    /\ ret[p].kind = "return"
    /\ call[p].prev.ret.kind = "return"
    /\ AllOk(log[p])
    /\ AllOk(call[p].prev.log)
    /\ OnlyOwnCreations(call[p].prev.began.contacts, call[p].prev.ret.ended.contacts,
                        call[p].prev.log)
    /\ call[p].began.contacts = call[p].prev.ret.ended.contacts
    /\ OnlyOwnCreations(call[p].began.contacts, ret[p].ended.contacts, log[p])

(* C5: two calls of get_or_create_vendor in sequence with the same name    *)
(* and no other change to the remote vendor collection return the same     *)
(* contact_id, and the second call issues no creation POST.                *)
C5_VendorIdempotent ==
    \A p \in Callers :
        CalledTwice(p)
            => /\ ret[p].v = call[p].prev.ret.v
               /\ Posts(log[p], "contacts") = {}
               /\ Cardinality(Posts(call[p].prev.log, "contacts")) <= 1

(* the first call created the vendor and the second one found it *)
C5_Witness ==
    \E p \in Callers :
        /\ CalledTwice(p)
        /\ Cardinality(Posts(call[p].prev.log, "contacts")) = 1
        /\ ret[p].v = 1
        /\ call[p].prev.ret.v = 1
        /\ Len(contacts) = 1
        /\ Str(contacts[1].contact_name.str) = call[p].name

-----------------------------------------------------------------------------
(* Observations on a run of the reconciliation task *)

RanRecon(p) == RanTo(p, "check_estimates")

(* the lookups of the retainer invoices of an estimate *)
Lookups(l) == {i \in 1..Len(l) : l[i].m = "GET" /\ l[i].r = "retainerinvoices"}

(* the lookup at position i is the Nth of the run *)
Nth(l, i) == Cardinality({j \in Lookups(l) : j <= i})

(* the estimate ids the run was given by the listing of accepted estimates *)
Listed(l) ==
    LET at == {i \in 1..Len(l) : l[i].m = "GET" /\ l[i].r = "estimates" /\ l[i].resp = "ok"}
    IN  IF at = {} THEN <<>> ELSE l[Min(at)].got

(* after the lookup at position i the run went on to the next estimate of  *)
(* the listing, if there is one: it looked up its invoices, or it could    *)
(* not get a token for that                                                *)
WentOn(l, i) ==
    Nth(l, i) < Len(Listed(l))
        => \/ \E j \in Lookups(l) : j > i /\ l[j].id = Listed(l)[Nth(l, i) + 1]
           \/ IsRefresh(l[Len(l)]) /\ l[Len(l)].resp # "ok"

(* the lookup at position i found no retainer invoice *)
FoundNone(l, i) == l[i].resp = "ok" /\ l[i].got = <<>>

(* C6: for an estimate with no linked retainer invoice,                    *)
(* update_retainer_invoice_payment_options returns the value               *)
(* {"error": "No retainer invoices found for this estimate."}, raises      *)
(* nothing and issues no PUT, and the reconciliation task goes on to the   *)
(* next estimate.                                                          *)
C6_NoInvoiceIsASoftError ==
    \A p \in Callers :
        call[p].op = "check_estimates"
            => \A i \in Lookups(log[p]) :
                   FoundNone(log[p], i)
                       => /\ i < Len(log[p]) => log[p][i + 1].m # "PUT"
                          /\ call[p].pc = "done"
                                 => /\ Len(ret[p].results) >= Nth(log[p], i)
                                    /\ ret[p].results[Nth(log[p], i)] = NO_INVOICES
                                    /\ WentOn(log[p], i)

(* the first accepted estimate had no retainer invoice; the run went on    *)
(* and updated the drawn invoice of the second                             *)
C6_Witness ==
    \E p \in Callers :
        /\ RanRecon(p)
        /\ ret[p].kind = "return"
        /\ AllOk(log[p])
        /\ Len(Listed(log[p])) = 2
        /\ ret[p].results = <<NO_INVOICES, "updated">>
        /\ Cardinality(Puts(log[p])) = 1

-----------------------------------------------------------------------------
(* the lookup at position i found a first invoice that is not drawn *)
FoundUndrawn(l, i) ==
    /\ l[i].resp = "ok"
    /\ l[i].got # <<>>
    /\ l[i].got[1].status # "drawn"

(* C7: in the reconciliation task a PUT is issued only for an invoice that *)
(* was found with status "drawn"; for an accepted estimate whose first     *)
(* retainer invoice has another status no PUT is issued, and the loop goes *)
(* on to the remaining accepted estimates.                                 *)
C7_OnlyDrawnInvoicesAreUpdated ==
    \A p \in Callers :
        call[p].op = "check_estimates"
            => LET l == log[p] IN
               /\ \A i \in Puts(l) :
                      /\ i > 1
                      /\ l[i].r = "retainerinvoices"
                      /\ (i - 1) \in Lookups(l)
                      /\ l[i - 1].resp = "ok"
                      /\ l[i - 1].got # <<>>
                      /\ l[i - 1].got[1].status = "drawn"
                      /\ l[i].id = l[i - 1].got[1].retainerinvoice_id
               /\ \A i \in Lookups(l) :
                      FoundUndrawn(l, i)
                          => /\ i < Len(l) => l[i + 1].m # "PUT"
                             /\ call[p].pc = "done"
                                    => /\ Len(ret[p].results) >= Nth(l, i)
                                       /\ ret[p].results[Nth(l, i)] = "None"
                                       /\ WentOn(l, i)

(* the invoice of the first accepted estimate was not drawn and was left   *)
(* alone; the run went on to the second estimate                           *)
C7_Witness ==
    \E p \in Callers :
        /\ RanRecon(p)
        /\ ret[p].kind = "return"
        /\ AllOk(log[p])
        /\ Len(Listed(log[p])) = 2
        /\ Cardinality(Lookups(log[p])) = 2
        /\ FoundUndrawn(log[p], Min(Lookups(log[p])))
        /\ ret[p].results[1] = "None"
        /\ Len(ret[p].results) = 2
        /\ Puts(log[p]) = {}
        /\ retainerinvoices[1].payment_options = "none"

-----------------------------------------------------------------------------
(* Observations on an extraction *)

Extracted == call.op = "extract" /\ ret.kind = "return"

(* the names of the values assigned to the line's product for one slug *)
ValuesOf(slug) ==
    LET mine == SelectSeq(call.line.assigned_values, LAMBDA av : av.slug = slug)
    IN  [i \in 1..Len(mine) |-> mine[i].name]

(* C8: for every product-level attribute with exactly one assigned value,  *)
(* the entry of the attribute map under the attribute's slug is that value *)
(* as a scalar string, not a one-element list.                             *)
C8_SingleValueIsScalar ==
    Extracted =>
        \A slug \in Range(call.line.attribute_products) :
            Len(ValuesOf(slug)) = 1
                => /\ slug \in DOMAIN ret.map
                   /\ ret.map[slug].kind = "str"
                   /\ ret.map[slug] = Str(ValuesOf(slug)[1])

C8_Witness ==
    /\ Extracted
    /\ call.line.attribute_products = <<"color", "material">>
    /\ ValuesOf("color") = <<"a">>
    /\ ValuesOf("material") = <<"b">>
    /\ ret.map["color"] = Str("a")
    /\ ret.map["material"] = Str("b")

-----------------------------------------------------------------------------
(* C9: when get_or_create_item fails for an order line inside              *)
(* post_confirm_order, the items and vendors the run has created stay on   *)
(* the remote side (the run issues nothing but GET, POST and PUT), the run *)
(* issues no estimate creation, the failed exchange is the last one of the *)
(* run, and the run returns the error result.                              *)
C9_ItemFailureLeavesOrphans ==
    \A p \in Callers :
        RanOrder(p) /\ ret[p].stage = "item"
            => LET l == log[p] IN
               /\ ret[p].kind = "return"
               /\ ret[p].status = "error"
               /\ Posts(l, "estimates") = {}
               /\ l # <<>>
               /\ l[Len(l)].resp # "ok"
               /\ \A i \in 1..Len(l) :
                      l[i].m \in {"READ", "OPEN", "DUMP", "GET", "POST", "PUT"}
               /\ \A i \in Posts(l, "items") :
                      l[i].resp = "ok"
                          => /\ l[i].got \in 1..Len(items)
                             /\ items[l[i].got].sku = l[i].sent.sku
               /\ \A i \in Posts(l, "contacts") :
                      l[i].resp = "ok"
                          => /\ l[i].got \in 1..Len(contacts)
                             /\ contacts[l[i].got].contact_name = l[i].sent.contact_name
                             /\ contacts[l[i].got].contact_type = l[i].sent.contact_type

(* the creation of the item of the second line failed; the item and the    *)
(* vendor of the first line are there, and no estimate                     *)
C9_Witness ==
    \E p \in Callers :
        /\ RanOrder(p)
        /\ ret[p].stage = "item"
        /\ ret[p].line = 2
        /\ ret[p].status = "error"
        /\ Cardinality(Posts(log[p], "items")) = 2
        /\ Len(items) = 1
        /\ \E i \in 1..Len(contacts) : contacts[i].contact_type = "vendor"
        /\ estimates = <<>>

-----------------------------------------------------------------------------
(* Observations on a call of a find-or-create operation of the client *)

ClientOps == {"get_or_create_vendor", "get_or_create_category"}

(* C10: when the refresh grant is answered without an access token,        *)
(* refresh_access_token raises and the client operation that asked for the *)
(* token ends with that exception: the failed grant is the last access of  *)
(* the call, the call has issued no other grant, and it has not written    *)
(* the token file.                                                         *)
C10_FailedRefreshIsFatal ==
    \A p \in Callers :
        call[p].op \in ClientOps
            => \A i \in Grants(log[p]) :
                   log[p][i].resp = "error_json"
                       => /\ i = Len(log[p])
                          /\ call[p].pc = "done"
                          /\ ret[p].kind = "raise"
                          /\ ret[p].exc = "Exception"
                          /\ Cardinality(Grants(log[p])) = 1
                          /\ FileWrites(log[p]) = {}

(* the record in the file had expired, the grant was refused, and the      *)
(* record is still what the file holds                                     *)
C10_Witness ==
    \E p \in Callers :
        /\ RanTo(p, "get_or_create_vendor")
        /\ Len(log[p]) = 2
        /\ log[p][1].got.file.kind = "ok"
        /\ log[p][2].resp = "error_json"
        /\ IsRefresh(log[p][2])
        /\ ret[p].kind = "raise"
        /\ tokenFile = log[p][1].got.file
        /\ contacts # <<>>

-----------------------------------------------------------------------------
(* C11: in a client operation, an exchange that is answered with a non-2xx *)
(* response or with a malformed body makes the operation fail towards its  *)
(* caller, and the operation issues no remote write (POST or PUT) after    *)
(* it; in particular a failed lookup is not taken for "not found" and      *)
(* followed by a creation.                                                 *)
C11_FailedExchangePropagates ==
    \A p \in Callers :
        call[p].op \in ClientOps /\ call[p].pc = "done"
            => \A i \in 1..Len(log[p]) :
                   log[p][i].resp # "ok"
                       => /\ ret[p].kind = "raise"
                          /\ \A j \in (i + 1)..Len(log[p]) : ~IsRemoteWrite(log[p][j])

-----------------------------------------------------------------------------
(* the variant attributes of the line other than the brand *)
OtherVariantAttributes ==
    SelectSeq(call.line.variant_attributes, LAMBDA a : a.slug # "brand")

(* C12: in the attribute map, every product-level and every variant-level  *)
(* attribute with one value is that value as a scalar string, and every    *)
(* one with two or more values is the list of all its values.              *)
C12_CollapsingRule ==
    Extracted =>
        /\ \A slug \in Range(call.line.attribute_products) :
               /\ Len(ValuesOf(slug)) = 1 => ret.map[slug] = Str(ValuesOf(slug)[1])
               /\ Len(ValuesOf(slug)) >= 2 => ret.map[slug] = List(ValuesOf(slug))
        /\ \A a \in Range(OtherVariantAttributes) :
               /\ Len(a.values) = 1 => ret.map[a.slug] = Str(a.values[1])
               /\ Len(a.values) >= 2 => ret.map[a.slug] = List(a.values)

-----------------------------------------------------------------------------
HasBrand == \E a \in Range(call.line.variant_attributes) : a.slug = "brand"

(* C13: the extraction of any order line returns an attribute map and a    *)
(* brand: the variant attribute "brand" is the brand and is no key of the  *)
(* map, every other variant attribute is a key of the map, and for a       *)
(* variant without a brand attribute the brand is None.                    *)
C13_BrandIsExtractedSeparately ==
    call.op = "extract" =>
        /\ ret.kind = "return"
        /\ "brand" \notin DOMAIN ret.map
        /\ \A a \in Range(OtherVariantAttributes) : a.slug \in DOMAIN ret.map
        /\ HasBrand => ret.brand # None
        /\ ~HasBrand => ret.brand = None

-----------------------------------------------------------------------------
(* C14: a find-or-create call all of whose exchanges are answered normally *)
(* returns the identifier of an existing record only when the key of that  *)
(* record equals the requested key, and otherwise issues one creation POST *)
(* and returns the identifier of the record it created.  Stated here for   *)
(* get_or_create_item, whose key is the SKU.                               *)
C14_ExactMatchOrCreate ==
    \A p \in Callers :
        (/\ RanTo(p, "get_or_create_item")
         /\ ret[p].kind = "return"
         /\ AllOk(log[p]))
            => LET created == Posts(log[p], "items") IN
               /\ ret[p].v \in 1..Len(items)
               /\ items[ret[p].v].sku = call[p].key
               /\ Cardinality(created) <= 1
               /\ \A i \in created : log[p][i].got = ret[p].v

-----------------------------------------------------------------------------
(* C15: callers of get_access_token that run against an absent or expired  *)
(* record at the same time, their reads, grants and writes interleaved in  *)
(* any way, each return a token issued by a successful refresh grant, and  *)
(* whatever they leave in the token file, a later caller returns the token *)
(* of an unexpired record or one it has just been granted: a call raises   *)
(* only when its own grant was not answered with a token, and it never     *)
(* returns anything but the token it was granted or the token of a record  *)
(* it read whole and before its expiry.                                    *)
C15_RacingCallersEndWithAValidToken ==
    \A p \in Callers :
        RanTo(p, "get_access_token")
            => LET l == log[p]
                   granted == {i \in Grants(l) : l[i].resp = "ok"}
               IN  /\ ret[p].kind \in {"return", "raise"}
                   /\ ret[p].kind = "raise" <=> Grants(l) \ granted # {}
                   /\ ret[p].kind = "return"
                          => /\ ret[p].v \in 1..issued
                             /\ \A i \in granted : ret[p].v = l[i].got.access_token
                             /\ granted = {}
                                    => /\ Fresh(l[1])
                                       /\ ret[p].v = l[1].got.file.access_token

(* two callers were granted a token each; the second writer's flush landed *)
(* on the text of the first and left a file that is no JSON; the caller    *)
(* that came next found that file and was granted a token of its own       *)
C15_Witness ==
    \E p \in Callers :
        /\ RanTo(p, "get_access_token")
        /\ call[p].prev.op = "get_access_token"
        /\ call[p].prev.ret.kind = "return"
        /\ Grants(call[p].prev.log) # {}
        /\ \E q \in Callers \ {p} :
               /\ RanTo(q, "get_access_token")
               /\ ret[q].kind = "return"
               /\ Grants(log[q]) # {}
               /\ ret[q].v # call[p].prev.ret.v
        /\ log[p][1].got.file = FileCorrupt
        /\ ret[p].kind = "return"
        /\ ret[p].v = 3
        /\ tokenFile.kind = "ok"
        /\ tokenFile.access_token = 3

-----------------------------------------------------------------------------
(* Observations on a call of get_or_create_dropdown_custom_field *)

(* the fetches of a field with its options among the accesses l *)
Fetches(l) == {i \in 1..Len(l) : l[i].m = "GET" /\ l[i].r = "fields_editpage"}

(* the names of the options in the list of options opts *)
OptionNames(opts) == {opts[i].name : i \in 1..Len(opts)}

(* C16: a call of get_or_create_dropdown_custom_field all of whose         *)
(* exchanges are answered normally fetches the options of the field once;  *)
(* when the name asked for is among them it issues no PUT; when it is not, *)
(* it issues exactly one PUT, for the field fetched, whose values are the  *)
(* fetched options in their order followed by one entry for the new option *)
(* that is active and has order = number of fetched options + 1.           *)
C16_EnsureOptionProtocol ==
    \A p \in Callers :
        (/\ RanTo(p, "ensure_option")
         /\ ret[p].kind = "return"
         /\ AllOk(log[p]))
            => LET l == log[p] IN
               /\ Cardinality(Fetches(l)) = 1
               /\ \A f \in Fetches(l) :
                      LET existing == Get(l[f].got, "values", <<>>) IN
                      IF call[p].name \in OptionNames(existing)
                      THEN /\ Puts(l) = {}
                           /\ ret[p].status = "already exists"
                      ELSE /\ Puts(l) = {f + 1}
                           /\ l[f + 1].r = "fields"
                           /\ l[f + 1].id = l[f].id
                           /\ l[f + 1].sent["values"] =
                                  Append(existing, [is_active |-> TRUE,
                                                    name |-> call[p].name,
                                                    order |-> Len(existing) + 1])
                           /\ ret[p].status = "updated"

(* the field had one option; the call added a second one behind it, with   *)
(* order 2, and these two are the options of the field now                 *)
C16_Witness ==
    \E p \in Callers :
        /\ RanTo(p, "ensure_option")
        /\ ret[p].kind = "return"
        /\ AllOk(log[p])
        /\ \E f \in Fetches(log[p]) :
               /\ Len(Get(log[p][f].got, "values", <<>>)) = 1
               /\ Puts(log[p]) = {f + 1}
               /\ Len(log[p][f + 1].sent["values"]) = 2
               /\ log[p][f + 1].sent["values"][2].order = 2
               /\ log[p][f + 1].sent["values"][1] = log[p][f].got["values"][1]
               /\ customfields[log[p][f].id].values = log[p][f + 1].sent["values"]

-----------------------------------------------------------------------------
(* C17: whatever runs of post_confirm_order there have been, the remote    *)
(* side holds at most one estimate for an order.                           *)
C17_OneEstimatePerOrder ==
    \A id \in 1..Len(Orders) :
        Cardinality({i \in 1..Len(estimates) : estimates[i].order = id}) <= 1

-----------------------------------------------------------------------------
(* C18: a run of the reconciliation task never raises: a failure of the    *)
(* listing of the accepted estimates or of the update of an invoice ends   *)
(* in a result the task returns.                                           *)
C18_ReconFailureIsCaughtAtBoundary ==
    \A p \in Callers : RanRecon(p) => ret[p].kind = "return"

-----------------------------------------------------------------------------
(* the invoices a run has updated: the ids of its PUTs answered normally *)
Updated(l) == {l[i].id : i \in {j \in Puts(l) : l[j].resp = "ok"}}

(* C19: a run of the reconciliation task that follows a run which updated  *)
(* the retainer invoice of an estimate issues no PUT for that invoice.     *)
C19_RerunIsANoOp ==
    \A p \in Callers :
        call[p].op = "check_estimates" /\ call[p].prev.op = "check_estimates"
            => \A i \in Puts(log[p]) : log[p][i].id \notin Updated(call[p].prev.log)

-----------------------------------------------------------------------------
(* Observations on the payload of a PUT *)

PutAllowList(e) == IF e.r = "fields" THEN FIELD_PUT_KEYS ELSE INVOICE_PUT_KEYS

PutReplacedKey(e) == IF e.r = "fields" THEN "values" ELSE "payment_options"

(* the object the call fetched with the access before its PUT at position  *)
(* i: the field, or the first invoice of the list                          *)
FetchedBefore(l, i) ==
    IF l[i - 1].resp # "ok" THEN EmptyObject
    ELSE IF l[i].r = "fields" THEN l[i - 1].got
    ELSE l[i - 1].got[1]

(* C20 as stated: the key set of every PUT payload is exactly the keys of  *)
(* the fetched object that are on the allow-list of the operation, no key  *)
(* outside the allow-list is sent, and every key sent other than the       *)
(* replaced one keeps the fetched value.                                   *)
C20_PayloadKeysAreFetchedKeysAllowed ==
    \A p \in Callers :
        \A i \in Puts(log[p]) :
            LET e == log[p][i]
                fetched == FetchedBefore(log[p], i)
            IN  /\ log[p][i - 1].m = "GET"
                /\ DOMAIN e.sent = DOMAIN fetched \cap PutAllowList(e)
                /\ DOMAIN e.sent \subseteq PutAllowList(e)
                /\ \A k \in DOMAIN e.sent \ {PutReplacedKey(e)} : e.sent[k] = fetched[k]

(* C20: the key set of every PUT payload is exactly the keys of the        *)
(* fetched object together with the replaced key ("values" for a field,    *)
(* "payment_options" for an invoice), cut down to the allow-list of the    *)
(* operation; no key outside the allow-list is sent; every key sent other  *)
(* than the replaced one keeps the fetched value; the replaced key is      *)
(* always sent, for an invoice with the fixed payment gateway and for a    *)
(* field with the fetched options followed by the new one.                 *)
C20_PayloadIsPrunedToAllowList ==
    \A p \in Callers :
        \A i \in Puts(log[p]) :
            LET e == log[p][i]
                fetched == FetchedBefore(log[p], i)
                replaced == PutReplacedKey(e)
            IN  /\ log[p][i - 1].m = "GET"
                /\ DOMAIN e.sent = (DOMAIN fetched \cup {replaced}) \cap PutAllowList(e)
                /\ DOMAIN e.sent \subseteq PutAllowList(e)
                /\ \A k \in DOMAIN e.sent \ {replaced} : e.sent[k] = fetched[k]
                /\ replaced \in DOMAIN e.sent
                /\ e.r = "retainerinvoices" => e.sent[replaced] = ZOHO_PAYMENTS
                /\ e.r = "fields" =>
                       /\ Len(e.sent[replaced]) = Len(Get(fetched, replaced, <<>>)) + 1
                       /\ \A k \in 1..Len(Get(fetched, replaced, <<>>)) :
                              e.sent[replaced][k] = fetched[replaced][k]
                       /\ e.sent[replaced][Len(e.sent[replaced])].name = call[p].name

(* an invoice was fetched without its payment options and with keys the    *)
(* allow-list does not have; the update carried the payment options and    *)
(* none of those keys                                                      *)
C20_Witness ==
    \E p \in Callers :
        /\ call[p].op = "update_invoice"
        /\ \E i \in Puts(log[p]) :
               /\ log[p][i - 1].resp = "ok"
               /\ "payment_options" \notin DOMAIN log[p][i - 1].got[1]
               /\ {"status", "retainerinvoice_id"} \subseteq DOMAIN log[p][i - 1].got[1]
               /\ DOMAIN log[p][i].sent = {"estimate_id", "payment_options"}
               /\ log[p][i].sent["payment_options"] = ZOHO_PAYMENTS
               /\ log[p][i].sent["estimate_id"] = log[p][i - 1].got[1]["estimate_id"]
====
